---- MODULE Spec2Model ----
(***************************************************************************)
(* GraphQLRequestProcessor (apollo-server-core request pipeline).           *)
(*                                                                          *)
(* The module has four parts, each with its own specification: one request  *)
(* through the pipeline (Spec), requests one after the other against one    *)
(* persisted-query cache (SpecAPQ), the construction of processors and the  *)
(* contexts they own (SpecContext), and a call of a RESTDataSource          *)
(* (SpecFetch).                                                             *)
(*                                                                          *)
(* One processor handles one request at a time.  Every action is one        *)
(* run-to-completion section of the JavaScript event loop: the code of      *)
(* processRequest between two suspension points (await), or the settling    *)
(* of a promise owned by a collaborator (the persisted-query cache, the     *)
(* engine's execute).                                                       *)
(*                                                                          *)
(* An optional value (a field that may be undefined) is a sequence of       *)
(* length 0 or 1.                                                           *)
(***************************************************************************)
EXTENDS Integers, Sequences, FiniteSets, TLC

VARIABLES
    options,              \* GraphQLRequestOptions handed to the constructor
    willExecuteOperation, \* the optional method of the processor
    extensionStack,       \* behaviour of the participants of the stack
    run,                  \* the processRequest call in progress (or finished)
    store,                \* contents of persistedQueries.cache
    writes,               \* cache.set calls whose promise is still pending
    warnings,             \* what the detached closure's catch handed to console.warn
    history,              \* the finished processRequest calls
    nreq,                 \* number of processRequest calls made
    heap,                 \* the context objects, by address
    processors,           \* the processors constructed from options
    restDataSource,       \* a RESTDataSource subclass instance
    fetching              \* the call of its fetch in progress (or finished)

vars == <<options, willExecuteOperation, extensionStack, run, store, writes,
          warnings, history, nreq, heap, processors, restDataSource, fetching>>

\* Number of requests sent one after the other against the same cache.
MaxRequests == 3

None == << >>
Some(v) == <<v>>
IsSome(o) == Len(o) > 0
Get(o) == o[1]

(***************************************************************************)
(* The inputs: query texts, and the hex digests createHash('sha256')        *)
(* gives for them (leading 8 hex digits of the real digests).               *)
(***************************************************************************)
TwoOperations == "query A{a} query B{a}"

Texts == {"", "{", "{x}", "{x y}", "{a}", "{b}", "{c}", "{d}", TwoOperations}

sha256hex(text) ==
    CASE text = ""      -> "e3b0c442"
      [] text = "{"     -> "021fb596"
      [] text = "{x}"   -> "d3ebeaf9"
      [] text = "{x y}" -> "1ba87cf7"
      [] text = "{a}"   -> "460c3a93"
      [] text = "{b}"   -> "75e5e9d6"
      [] text = "{c}"   -> "5678e420"
      [] text = "{d}"   -> "669c773c"
      [] text = TwoOperations -> "9da7a962"
      [] OTHER -> "ffffffff"   \* a text outside Texts: some other digest

Digests(texts) == {sha256hex(t) : t \in texts}

apqKey(sha) == "apq:" \o sha

\* GraphQLRequest: query?, extensions?.persistedQuery? {version, sha256Hash}
PersistedQueryExt(hashes) == [version : {1, 2}, sha256Hash : hashes]

\* requests that name no operation
RequestsOver(texts) ==
    {[query |-> Some(q), persistedQuery |-> None, operationName |-> None] : q \in texts}
    \cup {[query |-> Some(q), persistedQuery |-> Some(e), operationName |-> None] :
             q \in texts, e \in PersistedQueryExt({"deadbeef"})}
    \cup {[query |-> Some(q),
           persistedQuery |-> Some([version |-> v, sha256Hash |-> sha256hex(q)]),
           operationName |-> None] :
             q \in texts, v \in {1, 2}}
    \cup {[query |-> None, persistedQuery |-> None, operationName |-> None]}
    \cup {[query |-> None, persistedQuery |-> Some(e), operationName |-> None] :
             e \in PersistedQueryExt(Digests(texts) \cup {"deadbeef"})}

\* requests that name an operation: one the document defines ("A"), one it
\* does not define ("Z")
NamedRequests ==
    {[query |-> Some(q), persistedQuery |-> None, operationName |-> Some(n)] :
        q \in {"{a}", TwoOperations}, n \in {"A", "Z"}}

Requests == RequestsOver(Texts) \cup NamedRequests

\* The requests of the persisted-query sessions (several requests, one cache).
APQTexts == {"", "{a}", "{b}"}
APQRequests == RequestsOver(APQTexts)


(***************************************************************************)
(* The engine ('graphql'): parse, validate, getOperationAST, execute.       *)
(* A black box to the processor; here a fixed table over Texts.             *)
(***************************************************************************)
GraphQLError(message) == [class |-> "GraphQLError", message |-> message]

\* parse(query): a DocumentNode, or a thrown GraphQLError (syntax)
EngineParse(query) ==
    IF query = "{"
    THEN [threw |-> TRUE, error |-> GraphQLError("Syntax Error: Expected Name, found <EOF>"),
          document |-> ""]
    ELSE [threw |-> FALSE, error |-> GraphQLError(""), document |-> query]

\* validate(schema, document, rules): the violations, in the validator's order
EngineValidate(document) ==
    CASE document = "{x}"   -> <<GraphQLError("Cannot query field x")>>
      [] document = "{x y}" -> <<GraphQLError("Cannot query field x"),
                                 GraphQLError("Cannot query field y")>>
      [] OTHER -> << >>

\* getOperationAST(document, operationName): without a name the sole
\* operation, or null when the document holds several; with a name the
\* operation of that name, or null when the document defines none
getOperationAST(document, operationName) ==
    IF document = TwoOperations
    THEN IF operationName \in {Some("A"), Some("B")}
         THEN Some([document |-> document, name |-> operationName])
         ELSE None
    ELSE IF operationName = None
         THEN Some([document |-> document, name |-> None])
         ELSE None

ExecutionResult(data, errors) == [data |-> data, errors |-> errors]

\* execute(executionArgs): returns a result, throws, or returns a promise
\* that is fulfilled or rejected later
EngineExecute(document, operationName) ==
    CASE getOperationAST(document, operationName) = None /\ operationName # None ->
            [mode |-> "returns",
             value |-> ExecutionResult(None,
                         Some(<<GraphQLError("Unknown operation named")>>)),
             error |-> GraphQLError("")]
      [] document \in {"{a}", TwoOperations} /\ getOperationAST(document, operationName) # None ->
            [mode |-> "returns", value |-> ExecutionResult(Some("a"), None),
             error |-> GraphQLError("")]
      [] document = "{b}" ->
            [mode |-> "resolves",
             value |-> ExecutionResult(Some("b"),
                                       Some(<<GraphQLError("resolver of b failed")>>)),
             error |-> GraphQLError("")]
      [] document = "{c}" ->
            [mode |-> "rejects", value |-> ExecutionResult(None, None),
             error |-> GraphQLError("context creation failed")]
      [] document = "{d}" ->
            [mode |-> "throws", value |-> ExecutionResult(None, None),
             error |-> GraphQLError("Schema must be an instance of GraphQLSchema")]
      [] OTHER ->
            [mode |-> "returns",
             value |-> ExecutionResult(None,
                         Some(<<GraphQLError("Must provide operation name")>>)),
             error |-> GraphQLError("")]

(***************************************************************************)
(* Errors (apollo-server-errors) and the processor's own error class.       *)
(***************************************************************************)
\* fromGraphQLError(error, {errorClass}): the classified copy of an error;
\* without errorClass the generic ApolloError
fromGraphQLError(error, errorClass) == [class |-> errorClass, message |-> error.message]

PersistedQueryNotSupportedError ==
    [class |-> "PersistedQueryNotSupportedError", message |-> "PersistedQueryNotSupported"]
PersistedQueryNotFoundError ==
    [class |-> "PersistedQueryNotFoundError", message |-> "PersistedQueryNotFound"]
InvalidGraphQLRequestError(message) ==
    [class |-> "InvalidGraphQLRequestError", message |-> message]
\* what a failing callback, hook or cache throws
Thrown(by) == [class |-> "Error", message |-> by]

(***************************************************************************)
(* GraphQLResponse {data?, errors?, extensions?}.  shapedBy lists the       *)
(* callbacks that replaced the response object (formatResponse, a           *)
(* participant's willSendResponse), in order.                               *)
(***************************************************************************)
GraphQLResponse(data, errors) ==
    [data |-> data, errors |-> errors, extensions |-> None, shapedBy |-> << >>]

ErrorResponse(errors) == GraphQLResponse(None, Some(errors))

(***************************************************************************)
(* The state of one processRequest call.                                    *)
(***************************************************************************)
NoPromise == [state |-> "none", value |-> None, error |-> None]

Idle ==
    [pc |-> "idle", request |-> None, query |-> None,
     persistedQueryHit |-> FALSE, persistedQueryRegister |-> FALSE,
     getKey |-> None, got |-> None, setCall |-> "none", writeAtEnd |-> "none",
     started |-> None, parsed |-> None, document |-> None, operation |-> None,
     promise |-> NoPromise, formatResponseArgs |-> None,
     log |-> << >>, outcome |-> "pending", response |-> None, error |-> None]

Emit(st, event) == [st EXCEPT !.log = Append(@, event)]

\* processRequest's promise is rejected with err
Rejected(st, err) ==
    [st EXCEPT !.pc = "done", !.outcome = "rejected", !.error = Some(err)]

\* processRequest's promise is fulfilled with response
Returned(st, response) ==
    [st EXCEPT !.pc = "done", !.outcome = "returned", !.response = Some(response)]

(***************************************************************************)
(* GraphQLExtensionStack: the hooks are recorded in the log; what the       *)
(* participants do to the response is given by extensionStack.              *)
(***************************************************************************)
\* extensionStack.willSendResponse({graphqlResponse}).graphqlResponse
StackWillSendResponse(response) ==
    IF extensionStack.willSendResponse = "annotates"
    THEN [response EXCEPT !.shapedBy = Append(@, "willSendResponse")]
    ELSE response

\* extensionStack.format(): the participants' extensions, possibly none
StackFormat ==
    IF extensionStack.format = "nonEmpty" THEN {"tracing"} ELSE {}

(***************************************************************************)
(* Methods of GraphQLRequestProcessor.                                      *)
(***************************************************************************)
\* private willSendResponse(response)
willSendResponse(st, response) ==
    [st       |-> Emit(st, "willSendResponse"),
     threw    |-> extensionStack.willSendResponse = "throws",
     response |-> StackWillSendResponse(response)]

\* finally { requestDidEnd(); }
finallyRequestDidEnd(st) == Emit(st, "requestDidEnd")

\* `return this.willSendResponse(response)` inside the try of processRequest
returnWillSendResponse(st, response) ==
    LET w == willSendResponse(st, response)
    IN  IF w.threw
        THEN Rejected(finallyRequestDidEnd(w.st), Thrown("willSendResponse"))
        ELSE Returned(finallyRequestDidEnd(w.st), w.response)

\* faulty variant: the exception leaves processRequest without the finally block
throwOutsideTry(st, err) == Rejected(st, err)

\* an exception that leaves the try of processRequest uncaught
throwInsideTry(st, err) == Rejected(finallyRequestDidEnd(st), err)

\* faulty variant: parsingDidEnd is called after a successful parse only
parseWithoutFinally(st, query) ==
    LET didStart == Emit(st, "parsingDidStart")
        result   == EngineParse(query)
        worked   == [Emit(Emit(didStart, "parse:begin"), "parse:end")
                        EXCEPT !.parsed = Some(query)]
    IN  [st       |-> IF result.threw THEN worked ELSE Emit(worked, "parsingDidEnd"),
         threw    |-> result.threw,
         error    |-> result.error,
         document |-> result.document]

\* parse(query)
parse(st, query) ==
    LET didStart == Emit(st, "parsingDidStart")
        result   == EngineParse(query)
        worked   == [Emit(Emit(didStart, "parse:begin"), "parse:end")
                        EXCEPT !.parsed = Some(query)]
    IN  [st       |-> Emit(worked, "parsingDidEnd"),
         threw    |-> result.threw,
         error    |-> result.error,
         document |-> result.document]

\* validate(document)
validate(st, document) ==
    LET didStart == Emit(st, "validationDidStart")
        result   == EngineValidate(document)
        worked   == Emit(Emit(didStart, "validate:begin"), "validate:end")
    IN  [st |-> Emit(worked, "validationDidEnd"), errors |-> result]

Fulfilled(value) == [state |-> "fulfilled", value |-> Some(value), error |-> None]
Failed(err) == [state |-> "rejected", value |-> None, error |-> Some(err)]
Pending == [state |-> "pending", value |-> None, error |-> None]

\* try { return execute(executionArgs); } finally { executionDidEnd(); }
\* The returned value is not awaited inside the try: when the engine returns
\* a promise, the finally block runs while that promise is still pending.
tryExecute(st, document, operationName) ==
    LET result == EngineExecute(document, operationName)
        begun  == Emit(st, "execute:begin")
    IN  CASE result.mode = "returns" ->
                [Emit(Emit(begun, "execute:end"), "executionDidEnd")
                    EXCEPT !.promise = Fulfilled(result.value)]
          [] result.mode = "throws" ->
                [Emit(Emit(begun, "execute:end"), "executionDidEnd")
                    EXCEPT !.promise = Failed(result.error)]
          [] OTHER ->
                [Emit(begun, "executionDidEnd") EXCEPT !.promise = Pending]

\* async execute(document, operationName, variables): the state holds the
\* promise this call returns
execute(st, document, operationName) ==
    LET rooted == IF options.rootValue \in {"function", "functionThrows"}
                  THEN Emit(st, "rootValue") ELSE st
    IN  IF options.rootValue = "functionThrows"
        THEN [rooted EXCEPT !.promise = Failed(Thrown("rootValue"))]
        ELSE LET didStart == Emit(rooted, "executionDidStart")
             IN  IF extensionStack.executionDidStart = "throws"
                 THEN [didStart EXCEPT !.promise = Failed(Thrown("executionDidStart"))]
                 ELSE tryExecute(didStart, document, operationName)

(***************************************************************************)
(* processRequest, in the three sections its two awaits cut it into.        *)
(***************************************************************************)
\* faulty variant: the hash is stored in place of the query text
registeredEntryStoresHash(sha, query) == [key |-> apqKey(sha), value |-> sha]

\* faulty variant: the entry is keyed by the bare hash
registeredEntryUnprefixed(sha, query) == [key |-> sha, value |-> query]

\* the write the register path hands to cache.set
registeredEntry(sha, query) == [key |-> apqKey(sha), value |-> query]

\* the key the lookup path hands to cache.get
lookupKey(sha) == apqKey(sha)

\* faulty variant: only `!persistedQueries` is tested
cacheMissingOptionOnly == options.persistedQueries = "absent"

\* `if (!persistedQueries || !persistedQueries.cache)`
cacheMissing == options.persistedQueries \in {"absent", "noCache"}

\* faulty variant: the provided hash is trusted
shaUnchecked(sha, query) == TRUE

\* `calculatedSha = createHash('sha256').update(query).digest('hex')` and
\* its comparison with the hash the request gives
shaMatches(sha, query) == sha = sha256hex(query)

\* faulty variant: cache.set is called outside the closure: its throw is processRequest's
storeInline(st, setOutcome) ==
    IF setOutcome = "threw"
    THEN Rejected(Emit(st, "cache.set"), Thrown("cache.set"))
    ELSE [Emit(st, "cache.set") EXCEPT !.pc = "resolved", !.setCall = setOutcome]

\* `(async () => cache.set(key, query))().catch(error => console.warn(error))`:
\* the closure calls cache.set at once; a throw of that call becomes a
\* rejection of the closure's promise, which nobody awaits
storeDetached(st, setOutcome) ==
    [Emit(st, "cache.set") EXCEPT !.pc = "resolved", !.setCall = setOutcome]

\* `if (extensions && extensions.persistedQuery) { ... }`: the persisted-query
\* protocol.  setOutcome is what the cache's set does when it is called: it
\* throws ("threw") or returns a promise ("pending").  Leaves pc "resolved"
\* when processRequest goes on synchronously.
resolveQuery(st, request, setOutcome) ==
    IF ~IsSome(request.persistedQuery)
    THEN [st EXCEPT !.pc = "resolved"]
    ELSE
    LET sha == Get(request.persistedQuery).sha256Hash
    IN  IF cacheMissing
        THEN Rejected(st, PersistedQueryNotSupportedError)
        ELSE IF Get(request.persistedQuery).version # 1
        THEN Rejected(st, InvalidGraphQLRequestError("Unsupported persisted query version"))
        ELSE IF ~IsSome(request.query)
        THEN [Emit(st, "cache.get") EXCEPT !.pc = "awaitGet",
                                            !.getKey = Some(lookupKey(sha))]
        ELSE IF ~shaMatches(sha, Get(request.query))
        THEN Rejected(st, InvalidGraphQLRequestError("provided sha does not match query"))
        ELSE storeDetached([st EXCEPT !.persistedQueryRegister = TRUE], setOutcome)

\* faulty variant: the hit is not flagged
afterGetUnflagged(st, cached) ==
    LET answered == [st EXCEPT !.got = Some(cached)]
    IN  IF IsSome(cached) /\ Get(cached) # ""
        THEN [answered EXCEPT !.pc = "resolved", !.query = cached]
        ELSE Rejected(answered, PersistedQueryNotFoundError)

\* `query = (await cache.get(key)) || undefined; if (query) ... else throw`
\* cached is what the cache answered: a text, or nothing
afterGet(st, cached) ==
    LET answered == [st EXCEPT !.got = Some(cached)]
    IN  IF IsSome(cached) /\ Get(cached) # ""
        THEN [answered EXCEPT !.pc = "resolved", !.query = cached,
                              !.persistedQueryHit = TRUE]
        ELSE Rejected(answered, PersistedQueryNotFoundError)

\* what requestDidStart is told
requestDidStartArgs(st) ==
    [queryString            |-> Get(st.request).query,
     persistedQueryHit      |-> st.persistedQueryHit,
     persistedQueryRegister |-> st.persistedQueryRegister]

\* faulty variant: the syntax error is copied without its class
syntaxErrorUnclassified(syntaxError) ==
    ErrorResponse(<<fromGraphQLError(syntaxError, "ApolloError")>>)

\* the response of the `catch (syntaxError)` branch
syntaxErrorResponse(syntaxError) ==
    ErrorResponse(<<fromGraphQLError(syntaxError, "SyntaxError")>>)

\* faulty variant: only the first violation is reported
validationErrorFirstOnly(validationErrors) ==
    ErrorResponse(<<fromGraphQLError(validationErrors[1], "ValidationError")>>)

\* the response of the `validationErrors.length > 0` branch
validationErrorResponse(validationErrors) ==
    ErrorResponse([i \in 1..Len(validationErrors) |->
                      fromGraphQLError(validationErrors[i], "ValidationError")])

\* faulty variant: the engine's exception is handed on as it was thrown
executionErrorRaw(executionError) == ErrorResponse(<<executionError>>)

\* the response of the `catch (executionError)` branch
executionErrorResponse(executionError) ==
    ErrorResponse(<<fromGraphQLError(executionError, "ApolloError")>>)

\* faulty variant: only an absent query is refused
queryUndefined(query) == ~IsSome(query)

\* `!query`: the query is absent or the empty string
queryMissing(query) == ~IsSome(query) \/ Get(query) = ""

\* faulty variant: the formatted extensions are always attached
setExtensionsAlways(response, formattedExtensions) ==
    [response EXCEPT !.extensions = Some(formattedExtensions)]

\* `if (Object.keys(formattedExtensions).length > 0)
\*     response.extensions = formattedExtensions`
setExtensions(response, formattedExtensions) ==
    IF formattedExtensions # {}
    THEN [response EXCEPT !.extensions = Some(formattedExtensions)]
    ELSE response

\* faulty variant: the callback is called whether an operation was resolved or not
callbackDefined(operation) == willExecuteOperation # "undefined"

\* `if (operation && this.willExecuteOperation)`
operationAndCallback(operation) ==
    IsSome(operation) /\ willExecuteOperation # "undefined"

\* from `if (!query)` to `await this.execute(...)`
pipeline(st) ==
    IF queryMissing(st.query)
    THEN Rejected(st, InvalidGraphQLRequestError("Must provide query string."))
    ELSE
    LET didStart == [Emit(st, "requestDidStart")
                        EXCEPT !.started = Some(requestDidStartArgs(st))]
        p == parse(didStart, Get(st.query))
    IN  IF p.threw
        THEN returnWillSendResponse(p.st, syntaxErrorResponse(p.error))
        ELSE
        LET v == validate(p.st, p.document)
        IN  IF Len(v.errors) > 0
            THEN returnWillSendResponse(v.st, validationErrorResponse(v.errors))
            ELSE
            LET operationName == Get(st.request).operationName
                operation == getOperationAST(p.document, operationName)
                called    == operationAndCallback(operation)
                notified  == IF called
                             THEN [Emit(v.st, "willExecuteOperation")
                                      EXCEPT !.operation = operation]
                             ELSE v.st
            IN  IF called /\ willExecuteOperation = "throws"
                THEN throwInsideTry(notified, Thrown("willExecuteOperation"))
                ELSE [execute(notified, p.document, operationName)
                         EXCEPT !.pc = "awaitExecute", !.document = Some(p.document)]

\* faulty variant: no catch around `await this.execute(...)`
executionErrorUncaught(st, executionError) == throwInsideTry(st, executionError)

\* `catch (executionError) { return this.willSendResponse({errors: [...]}); }`
catchExecutionError(st, executionError) ==
    returnWillSendResponse(st, executionErrorResponse(executionError))

\* from the settling of `await this.execute(...)` to the end
afterExecute(st) ==
    IF st.promise.state = "rejected"
    THEN catchExecutionError(st, Get(st.promise.error))
    ELSE
    LET result    == Get(st.promise.value)
        formatted == Emit(st, "format")
        response  == setExtensions(GraphQLResponse(result.data, result.errors),
                                   StackFormat)
    IN  IF options.formatResponse = "undefined"
        THEN returnWillSendResponse(formatted, response)
        ELSE
        LET called == [Emit(formatted, "formatResponse")
                          EXCEPT !.formatResponseArgs = Some(response)]
        IN  IF options.formatResponse = "throws"
            THEN throwInsideTry(called, Thrown("formatResponse"))
            ELSE returnWillSendResponse(called,
                     [response EXCEPT !.shapedBy = Append(@, "formatResponse")])

\* processRequest up to its first await (or to its end)
startRequest(request, setOutcome) ==
    LET st == resolveQuery([Idle EXCEPT !.request = Some(request),
                                        !.query = request.query],
                           request, setOutcome)
    IN  IF st.pc = "resolved" THEN pipeline(st) ELSE st

(***************************************************************************)
(* Construction: initializeContext, initializeExtensions, cloneObject.      *)
(* Objects live in a heap and are referred to by their address, so that     *)
(* two references to one object and two equal objects are told apart.       *)
(* Address 0 is options.context; the clone made for processor p is          *)
(* allocated at address p.                                                  *)
(***************************************************************************)
Processors == {1, 2}
Addresses == {0} \cup Processors
OptionsContext == 0

PropertyNames == {"user", "dataSources", "_extensionStack"}
Absent == "absent"
NoObject == [allocated |-> FALSE, proto |-> "", props |-> [k \in PropertyNames |-> Absent]]

\* a plain object whose only own property is user, with or without a
\* dataSources property of the caller's own
CallerContext(ownDataSources) ==
    [allocated |-> TRUE, proto |-> "Object.prototype",
     props |-> [k \in PropertyNames |->
                  CASE k = "user" -> "alice"
                    [] k = "dataSources" -> IF ownDataSources THEN "callers" ELSE Absent
                    [] OTHER -> Absent]]

\* `key in object`
In(object, key) == object.props[key] # Absent

\* faulty variant: no clone is made, the caller's object itself is used
cloneObjectAliased(h, address, fresh) == [heap |-> h, result |-> address]

\* cloneObject(object): a new object with the prototype and the own
\* properties of object
cloneObject(h, address, fresh) ==
    [heap   |-> [h EXCEPT ![fresh] = [allocated |-> TRUE,
                                      proto     |-> h[address].proto,
                                      props     |-> h[address].props]],
     result |-> fresh]

\* a data source as the factory returns it
DataSource(hasInitialize) ==
    [hasInitialize |-> hasInitialize, calls |-> << >>, context |-> None,
     httpCache |-> None]

\* options.dataSources(): a RESTDataSource, which defines initialize, and a
\* data source that does not
DataSourcesOf == [name \in {"api", "plain"} |-> DataSource(name = "api")]
NoDataSources == [name \in {"api", "plain"} |-> DataSource(FALSE)]

\* RESTDataSource.initialize(context, cache), called with the list arguments:
\* a parameter without an argument is undefined
initialize(dataSource, arguments) ==
    [dataSource EXCEPT
        !.calls     = Append(@, arguments),
        !.context   = IF Len(arguments) >= 1 THEN Some(arguments[1]) ELSE None,
        !.httpCache = Some(IF Len(arguments) >= 2 THEN arguments[2] ELSE "undefined")]

\* `for (const dataSource of Object.values(dataSources))
\*      if (dataSource.initialize) dataSource.initialize({context, cache})`
initializeEach(dataSources, config) ==
    [name \in DOMAIN dataSources |->
        IF dataSources[name].hasInitialize
        THEN initialize(dataSources[name], <<config>>)
        ELSE dataSources[name]]

\* a processor before its constructor has run: no field is assigned
NotConstructed ==
    [status |-> "none", context |-> None, extensionStack |-> None,
     factoryCalls |-> 0, dataSources |-> NoDataSources, contextValue |-> None]

\* initializeContext() of processor p, whose fields are self: the heap it
\* leaves, the context it returns (or the throw), the data sources it made
initializeContext(h, self, p) ==
    LET cloned  == cloneObject(h, OptionsContext, p)
        context == cloned.result
    IN  IF options.dataSources = "undefined"
        THEN [heap |-> cloned.heap, threw |-> FALSE, context |-> Some(context),
              factoryCalls |-> 0, dataSources |-> NoDataSources]
        ELSE
        LET dataSources == initializeEach(DataSourcesOf,
                              [context |-> self.context, cache |-> options.cache])
        IN  IF In(cloned.heap[context], "dataSources")
            THEN [heap |-> cloned.heap, threw |-> TRUE, context |-> None,
                  factoryCalls |-> 1, dataSources |-> dataSources]
            ELSE [heap |-> [cloned.heap EXCEPT
                               ![context].props["dataSources"] = "mapping"],
                  threw |-> FALSE, context |-> Some(context),
                  factoryCalls |-> 1, dataSources |-> dataSources]

\* initializeExtensions() of a processor whose context field is context
initializeExtensions(h, context) ==
    [h EXCEPT ![context].props["_extensionStack"] = "stack"]

\* new GraphQLRequestProcessor(options): the heap and the processor it leaves
construct(h, self, p) ==
    LET made == initializeContext(h, self, p)
    IN  IF made.threw
        THEN [heap |-> made.heap,
              processor |-> [self EXCEPT !.status = "threw",
                                         !.factoryCalls = made.factoryCalls,
                                         !.dataSources = made.dataSources]]
        ELSE [heap |-> initializeExtensions(made.heap, Get(made.context)),
              processor |-> [self EXCEPT !.status = "constructed",
                                         !.context = made.context,
                                         !.extensionStack = Some("stack"),
                                         !.factoryCalls = made.factoryCalls,
                                         !.dataSources = made.dataSources]]

(***************************************************************************)
(* RESTDataSource: one call of get/post/put/patch/delete, i.e. of fetch.    *)
(***************************************************************************)
Methods == {"GET", "POST", "PUT", "PATCH", "DELETE"}
Paths == {"movies", "https://other.example/movies"}

\* a subclass of RESTDataSource: its baseURL, what it overrides, and
\* whether process.env.NODE_ENV is 'development'
RESTDataSources ==
    [baseURL           : {None, Some("https://api.example"), Some("https://api.example/")},
     willSendRequest   : {"undefined", "resolves", "rejects"},
     cacheKeyFor       : {"default", "overridden"},
     didEncounterError : {"default", "returns"},
     development       : BOOLEAN]

PlainRESTDataSource ==
    [baseURL |-> None, willSendRequest |-> "undefined", cacheKeyFor |-> "default",
     didEncounterError |-> "default", development |-> FALSE]

\* a call of fetch: where it stands, what it has called, how its promise settled
NotCalled ==
    [pc |-> "idle", method |-> "", path |-> "", url |-> None, cacheKey |-> None,
     response |-> None, inner |-> "none", log |-> << >>,
     state |-> "pending", value |-> None, error |-> None]

IsAbsolute(path) == path = "https://other.example/movies"
EndsWithSlash(baseURL) == baseURL = "https://api.example/"

\* resolveURL(request): new URL(request.path, normalizedBaseURL) or
\* new URL(request.path), which throws on a relative path
resolveURL(dataSource, path) ==
    IF IsSome(dataSource.baseURL)
    THEN LET baseURL == Get(dataSource.baseURL)
             normalizedBaseURL == IF EndsWithSlash(baseURL) THEN baseURL
                                  ELSE baseURL \o "/"
         IN  [threw |-> FALSE,
              url |-> IF IsAbsolute(path) THEN path ELSE normalizedBaseURL \o path]
    ELSE [threw |-> ~IsAbsolute(path), url |-> path]

\* cacheKeyFor(request): request.url unless overridden
cacheKeyFor(dataSource, url) ==
    IF dataSource.cacheKeyFor = "default" THEN url ELSE "key of " \o url

\* errorFromResponse(response)
errorFromResponse(status) ==
    CASE status = 401 -> [class |-> "AuthenticationError", message |-> "401"]
      [] status = 403 -> [class |-> "ForbiddenError", message |-> "403"]
      [] OTHER        -> [class |-> "ApolloError", message |-> "response not ok"]

Note(call, event) == [call EXCEPT !.log = Append(@, event)]
RejectCall(call, err) ==
    [Note(call, "settled") EXCEPT !.pc = "done", !.state = "rejected", !.error = Some(err)]
FulfilCall(call, value) ==
    [Note(call, "settled") EXCEPT !.pc = "done", !.state = "fulfilled", !.value = value]

\* trace(label, fn) once fn's promise has settled: in development
\* `try { return await fn(); } finally { console.log(...) }`, else `return fn()`
traceSettles(dataSource, call, rejected, value, err) ==
    LET logged == IF dataSource.development THEN Note(call, "console.log") ELSE call
    IN  IF rejected THEN RejectCall(logged, err) ELSE FulfilCall(logged, value)

\* `catch (error) { this.didEncounterError(error, request); }`: the default
\* didEncounterError throws the error; one that returns makes the call
\* settle with undefined
catchError(dataSource, call, err) ==
    LET told == Note(call, "didEncounterError")
    IN  IF dataSource.didEncounterError = "default"
        THEN traceSettles(dataSource, told, TRUE, None, err)
        ELSE traceSettles(dataSource, told, FALSE, None, err)

\* from `const url = await this.resolveURL(options)` to the call of
\* httpCache.fetch inside the closure handed to trace
sendRequest(dataSource, call) ==
    LET resolving == Note(call, "resolveURL")
        resolved  == resolveURL(dataSource, call.path)
    IN  IF resolved.threw
        THEN RejectCall(resolving, [class |-> "TypeError", message |-> "Invalid URL"])
        ELSE [Note(Note(resolving, "cacheKeyFor"), "httpCache.fetch")
                 EXCEPT !.pc = "awaitFetch",
                        !.url = Some(resolved.url),
                        !.cacheKey = Some(cacheKeyFor(dataSource, resolved.url))]

\* fetch(init) up to its first await
fetch(dataSource, method, path) ==
    LET call == [NotCalled EXCEPT !.method = method, !.path = path]
    IN  IF dataSource.willSendRequest # "undefined"
        THEN [Note(call, "willSendRequest") EXCEPT !.pc = "awaitWillSendRequest"]
        ELSE [call EXCEPT !.pc = "awaitResolveURL"]

\* `return this.didReceiveResponse(response, request)`: the call is made
\* inside the try and its promise is returned without being awaited there
didReceiveResponse(call, status) ==
    [Note(call, "didReceiveResponse")
        EXCEPT !.pc = "awaitDidReceiveResponse", !.response = Some(status)]

(***************************************************************************)
(* State machine.                                                           *)
(***************************************************************************)
Keys == {apqKey(h) : h \in Digests(Texts) \cup {"deadbeef"}}

\* KeyValueCache.get(key): the stored text, or nothing
cacheGet(key) == IF key \in DOMAIN store THEN store[key] ELSE None

\* what has become of the cache.set call of the processRequest call in
\* progress, given the pending writes ws and the warnings wn
writeStatus(st, ws, wn) ==
    CASE st.setCall = "none"  -> "none"
      [] st.setCall = "threw" -> "threw"
      [] \E w \in ws : w.current -> "pending"
      [] \E w \in wn : w.current -> "rejected"
      [] OTHER -> "stored"

\* the writes and warnings of earlier calls
Earlier(ws) == {[w EXCEPT !.current = FALSE] : w \in ws}

\* a finished call notes what had become of its write when it finished
Close(st, ws, wn) ==
    IF st.pc = "done" THEN [st EXCEPT !.writeAtEnd = writeStatus(st, ws, wn)] ELSE st

Archive(st) == IF st.pc = "done" THEN history \cup {st} ELSE history

CallbackModes == {"undefined", "returns", "throws"}

AllOptions ==
    [persistedQueries : {"absent", "noCache", "cache"},
     formatResponse   : CallbackModes,
     rootValue        : {"value", "function", "functionThrows"},
     dataSources      : {"undefined", "factory"},
     cache            : {"undefined", "cache"}]

\* options without data sources
WithoutDataSources == {o \in AllOptions : o.dataSources = "undefined" /\ o.cache = "undefined"}

AllStacks ==
    [willSendResponse  : {"identity", "annotates", "throws"},
     format            : {"empty", "nonEmpty"},
     executionDidStart : {"returns", "throws"}]

InitPipeline ==
    /\ run = Idle
    /\ store = [k \in Keys |-> None]
    /\ writes = {}
    /\ warnings = {}
    /\ history = {}
    /\ nreq = 0

\* no data source in use
InitNoFetch == restDataSource = PlainRESTDataSource /\ fetching = NotCalled

\* no request yet, no processor constructed
InitRest ==
    /\ InitPipeline
    /\ InitNoFetch
    /\ heap = [a \in Addresses |-> IF a = OptionsContext THEN CallerContext(FALSE)
                                                          ELSE NoObject]
    /\ processors = [p \in Processors |-> NotConstructed]

\* a processor constructed with any options
Init ==
    /\ options \in WithoutDataSources
    /\ willExecuteOperation \in CallbackModes
    /\ extensionStack \in AllStacks
    /\ InitRest

\* a processor with no callbacks and a silent stack, with or without a cache
InitAPQ ==
    /\ options \in {o \in WithoutDataSources : o.formatResponse = "undefined"
                                        /\ o.rootValue = "value"}
    /\ willExecuteOperation = "undefined"
    /\ extensionStack = [willSendResponse |-> "identity", format |-> "empty",
                         executionDidStart |-> "returns"]
    /\ InitRest

Config == <<options, willExecuteOperation, extensionStack, heap, processors,
            restDataSource, fetching>>

\* a transport adapter calls processRequest(request)
processRequest(request, setOutcome) ==
    /\ run.pc \in {"idle", "done"}
    /\ LET st == startRequest(request, setOutcome)
           entry == registeredEntry(Get(request.persistedQuery).sha256Hash,
                                    Get(request.query))
           ws == IF st.setCall = "pending"
                 THEN Earlier(writes) \cup {[key |-> entry.key, value |-> entry.value,
                                             current |-> TRUE]}
                 ELSE Earlier(writes)
           wn == IF st.setCall = "threw"
                 THEN Earlier(warnings) \cup {[key |-> entry.key, current |-> TRUE]}
                 ELSE Earlier(warnings)
       IN  /\ run' = Close(st, ws, wn)
           /\ history' = Archive(Close(st, ws, wn))
           /\ writes' = ws
           /\ warnings' = wn
    /\ nreq' = nreq + 1
    /\ UNCHANGED <<Config, store>>

\* cache.get's promise is fulfilled with the stored value
GetResolves ==
    /\ run.pc = "awaitGet"
    /\ LET got == afterGet(run, cacheGet(Get(run.getKey)))
           st  == IF got.pc = "resolved" THEN pipeline(got) ELSE got
       IN  run' = st /\ history' = Archive(st)
    /\ UNCHANGED <<Config, store, writes, warnings, nreq>>

\* cache.get's promise is rejected
GetRejects ==
    /\ run.pc = "awaitGet"
    /\ LET st == Rejected(run, Thrown("cache.get"))
       IN  run' = st /\ history' = Archive(st)
    /\ UNCHANGED <<Config, store, writes, warnings, nreq>>

\* a cache.set promise is fulfilled: the entry is stored
SetCompletes(w) ==
    /\ w \in writes
    /\ store' = [k \in Keys |-> IF k = w.key THEN Some(w.value) ELSE store[k]]
    /\ writes' = writes \ {w}
    /\ UNCHANGED <<Config, run, warnings, history, nreq>>

\* a cache.set promise is rejected: `.catch(error => console.warn(error))`
SetRejects(w) ==
    /\ w \in writes
    /\ writes' = writes \ {w}
    /\ warnings' = warnings \cup {[key |-> w.key, current |-> w.current]}
    /\ UNCHANGED <<Config, run, store, history, nreq>>

\* the promise returned by the engine's execute settles
EngineSettles ==
    /\ run.pc = "awaitExecute"
    /\ run.promise.state = "pending"
    /\ LET result == EngineExecute(Get(run.document), Get(run.request).operationName)
       IN  run' = [Emit(run, "execute:end")
                      EXCEPT !.promise = IF result.mode = "resolves"
                                         THEN Fulfilled(result.value)
                                         ELSE Failed(result.error)]
    /\ UNCHANGED <<Config, store, writes, warnings, history, nreq>>

\* processRequest resumes after `await this.execute(...)`
ResumeAfterExecute ==
    /\ run.pc = "awaitExecute"
    /\ run.promise.state \in {"fulfilled", "rejected"}
    /\ LET st == Close(afterExecute(run), writes, warnings)
       IN  run' = st /\ history' = Archive(st)
    /\ UNCHANGED <<Config, store, writes, warnings, nreq>>

SetOutcomes == {"threw", "pending"}

CacheAndEngine ==
    \/ GetResolves
    \/ GetRejects
    \/ \E w \in writes : SetCompletes(w)
    \/ \E w \in writes : SetRejects(w)
    \/ EngineSettles
    \/ ResumeAfterExecute

\* one request through a fresh processor
Next ==
    \/ \E request \in Requests, o \in SetOutcomes :
          nreq = 0 /\ processRequest(request, o)
    \/ CacheAndEngine

Spec == Init /\ [][Next]_vars

\* up to MaxRequests requests, one after the other, against one cache
NextAPQ ==
    \/ \E request \in APQRequests, o \in SetOutcomes :
          nreq < MaxRequests /\ processRequest(request, o)
    \/ CacheAndEngine

SpecAPQ == InitAPQ /\ [][NextAPQ]_vars

(***************************************************************************)
(* Processors constructed from one options object, and what is done to      *)
(* their contexts afterwards.                                               *)
(***************************************************************************)
Pipeline == <<willExecuteOperation, extensionStack, run, store, writes, warnings,
              history, nreq>>

\* options with or without a data-source factory and a cache; a caller's
\* context with or without a dataSources property of its own
InitContext ==
    /\ options \in {o \in AllOptions : /\ o.persistedQueries = "absent"
                                        /\ o.formatResponse = "undefined"
                                        /\ o.rootValue = "value"}
    /\ willExecuteOperation = "undefined"
    /\ extensionStack = [willSendResponse |-> "identity", format |-> "empty",
                         executionDidStart |-> "returns"]
    /\ InitPipeline
    /\ InitNoFetch
    /\ \E own \in BOOLEAN :
          heap = [a \in Addresses |-> IF a = OptionsContext THEN CallerContext(own)
                                                           ELSE NoObject]
    /\ processors = [p \in Processors |-> NotConstructed]

\* new GraphQLRequestProcessor(options)
Construct(p) ==
    /\ processors[p].status = "none"
    /\ LET made == construct(heap, processors[p], p)
       IN  /\ heap' = made.heap
           /\ processors' = [processors EXCEPT ![p] = made.processor]
    /\ UNCHANGED <<options, Pipeline, restDataSource, fetching>>

\* `contextValue: this.context`: execute hands the context to the engine
ExecuteWith(p) ==
    /\ processors[p].status = "constructed"
    /\ processors[p].contextValue = None
    /\ processors' = [processors EXCEPT ![p].contextValue = Some(processors[p].context)]
    /\ UNCHANGED <<options, Pipeline, heap, restDataSource, fetching>>

\* a resolver, given processor p's context as contextValue, assigns a property of it
AssignProperty(p, key, value) ==
    /\ IsSome(processors[p].contextValue)
    /\ IsSome(Get(processors[p].contextValue))
    /\ heap' = [heap EXCEPT ![Get(Get(processors[p].contextValue))].props[key] = value]
    /\ UNCHANGED <<options, Pipeline, processors, restDataSource, fetching>>

\* a resolver, given processor p's context as contextValue, deletes a property of it
DeleteProperty(p, key) ==
    /\ IsSome(processors[p].contextValue)
    /\ IsSome(Get(processors[p].contextValue))
    /\ heap' = [heap EXCEPT ![Get(Get(processors[p].contextValue))].props[key] = Absent]
    /\ UNCHANGED <<options, Pipeline, processors, restDataSource, fetching>>

NextContext ==
    \/ \E p \in Processors : Construct(p)
    \/ \E p \in Processors : ExecuteWith(p)
    \/ \E p \in Processors, key \in PropertyNames : AssignProperty(p, key, "reassigned")
    \/ \E p \in Processors, key \in PropertyNames : DeleteProperty(p, key)

SpecContext == InitContext /\ [][NextContext]_vars

(***************************************************************************)
(* Calls of a RESTDataSource, one after the other.                          *)
(***************************************************************************)
StatusCodes == {200, 401, 403, 404}

InitFetch ==
    /\ options \in {o \in WithoutDataSources : /\ o.persistedQueries = "absent"
                                               /\ o.formatResponse = "undefined"
                                               /\ o.rootValue = "value"}
    /\ willExecuteOperation = "undefined"
    /\ extensionStack = [willSendResponse |-> "identity", format |-> "empty",
                         executionDidStart |-> "returns"]
    /\ InitPipeline
    /\ heap = [a \in Addresses |-> IF a = OptionsContext THEN CallerContext(FALSE)
                                                          ELSE NoObject]
    /\ processors = [p \in Processors |-> NotConstructed]
    /\ restDataSource \in RESTDataSources
    /\ fetching = NotCalled

Elsewhere == <<options, Pipeline, heap, processors, restDataSource>>

\* get, post, patch, put, delete: `return this.fetch({method, path, ...})`
Fetch(method, path) ==
    /\ fetching.pc \in {"idle", "done"}
    /\ fetching' = fetch(restDataSource, method, path)
    /\ UNCHANGED Elsewhere

\* the promise of willSendRequest settles
WillSendRequestSettles ==
    /\ fetching.pc = "awaitWillSendRequest"
    /\ fetching' =
          IF restDataSource.willSendRequest = "rejects"
          THEN RejectCall(Note(fetching, "willSendRequest:settled"),
                          [class |-> "Error", message |-> "willSendRequest"])
          ELSE sendRequest(restDataSource, Note(fetching, "willSendRequest:settled"))
    /\ UNCHANGED Elsewhere

\* fetch goes on without a willSendRequest
ResolveURL ==
    /\ fetching.pc = "awaitResolveURL"
    /\ fetching' = sendRequest(restDataSource, fetching)
    /\ UNCHANGED Elsewhere

\* the promise of httpCache.fetch is rejected
FetchRejects ==
    /\ fetching.pc = "awaitFetch"
    /\ fetching' = catchError(restDataSource,
                              [fetching EXCEPT !.inner = "httpCache.fetch rejected"],
                              [class |-> "FetchError", message |-> "network"])
    /\ UNCHANGED Elsewhere

\* the promise of httpCache.fetch is fulfilled with a response
FetchResolves(status) ==
    /\ fetching.pc = "awaitFetch"
    /\ fetching' = didReceiveResponse(fetching, status)
    /\ UNCHANGED Elsewhere

\* the promise of didReceiveResponse settles, outside the try that called
\* it: fulfilled with the parsed body of an ok response, rejected with the
\* error made from any other response or with a failure of parseBody
DidReceiveResponseSettles(parses) ==
    /\ fetching.pc = "awaitDidReceiveResponse"
    /\ LET status == Get(fetching.response)
       IN  fetching' =
             IF status = 200 /\ parses
             THEN traceSettles(restDataSource,
                      [fetching EXCEPT !.inner = "didReceiveResponse fulfilled"],
                      FALSE, Some("body"), None)
             ELSE traceSettles(restDataSource,
                      [fetching EXCEPT !.inner = "didReceiveResponse rejected"],
                      TRUE, None,
                      IF status = 200
                      THEN [class |-> "FetchError", message |-> "invalid json"]
                      ELSE errorFromResponse(status))
    /\ UNCHANGED Elsewhere

NextFetch ==
    \/ \E method \in Methods, path \in Paths : Fetch(method, path)
    \/ WillSendRequestSettles
    \/ ResolveURL
    \/ FetchRejects
    \/ \E status \in StatusCodes : FetchResolves(status)
    \/ \E parses \in BOOLEAN : DidReceiveResponseSettles(parses)

SpecFetch == InitFetch /\ [][NextFetch]_vars

(***************************************************************************)
(* Properties.                                                              *)
(***************************************************************************)
Has(log, e) == \E i \in 1..Len(log) : log[i] = e
Count(log, e) == Cardinality({i \in 1..Len(log) : log[i] = e})
\* position of the first e in log (0 when absent)
Pos(log, e) == IF Has(log, e)
               THEN CHOOSE i \in 1..Len(log) :
                        log[i] = e /\ \A j \in 1..(i - 1) : log[j] # e
               ELSE 0

Finished == run.pc = "done"
ReturnedResponse == Get(run.response)

\* a Response: data or a non-empty list of errors, each with class and message
WellFormed(response) ==
    /\ IsSome(response.data) \/ IsSome(response.errors)
    /\ IsSome(response.errors) =>
          /\ Len(Get(response.errors)) > 0
          /\ \A i \in 1..Len(Get(response.errors)) :
                DOMAIN Get(response.errors)[i] = {"class", "message"}

ParseRejects == IsSome(run.parsed) /\ EngineParse(Get(run.parsed)).threw
Violations == IF IsSome(run.parsed) /\ ~EngineParse(Get(run.parsed)).threw
              THEN EngineValidate(EngineParse(Get(run.parsed)).document)
              ELSE << >>

ValidationEvents == {"validationDidStart", "validate:begin", "validate:end",
                     "validationDidEnd"}
ExecutionEvents == {"willExecuteOperation", "rootValue", "executionDidStart",
                    "execute:begin", "execute:end", "executionDidEnd", "format",
                    "formatResponse"}

\* the errors with which processRequest's promise is rejected
EscapingErrors ==
    {PersistedQueryNotSupportedError, PersistedQueryNotFoundError,
     InvalidGraphQLRequestError("Unsupported persisted query version"),
     InvalidGraphQLRequestError("provided sha does not match query"),
     InvalidGraphQLRequestError("Must provide query string."),
     Thrown("cache.get"), Thrown("willExecuteOperation"),
     Thrown("formatResponse"), Thrown("willSendResponse")}

\* C1 (as stated): every finished processRequest has returned a well-formed
\* Response; no failure ever leaves it as a rejected promise.
C1_NothingEscapes ==
    Finished => run.outcome = "returned" /\ WellFormed(ReturnedResponse)

\* C1 (amended): a finished processRequest has either returned a well-formed
\* Response or rejected with one of: a persisted-query protocol error, the
\* missing-query error, a cache.get failure, or the exception of
\* willExecuteOperation, formatResponse or willSendResponse.  Failures of the
\* engine (syntax, validation, execution) are never rejections: unless
\* willSendResponse throws they are returned, classified, in Response.errors.
C1_EngineFailuresReturned ==
    Finished =>
      /\ run.outcome = "returned" =>
            run.error = None /\ IsSome(run.response) /\ WellFormed(ReturnedResponse)
      /\ run.outcome = "rejected" =>
            run.response = None /\ IsSome(run.error) /\ Get(run.error) \in EscapingErrors
      /\ run.outcome \in {"returned", "rejected"}
      /\ extensionStack.willSendResponse # "throws" =>
            /\ ParseRejects =>
                  /\ run.outcome = "returned"
                  /\ Get(ReturnedResponse.errors) =
                        <<[class |-> "SyntaxError",
                           message |-> EngineParse(Get(run.parsed)).error.message]>>
            /\ Len(Violations) > 0 =>
                  /\ run.outcome = "returned"
                  /\ \A i \in 1..Len(Get(ReturnedResponse.errors)) :
                        Get(ReturnedResponse.errors)[i].class = "ValidationError"
            /\ run.promise.state = "rejected" =>
                  /\ run.outcome = "returned"
                  /\ Get(ReturnedResponse.errors) =
                        <<[class |-> "ApolloError",
                           message |-> Get(run.promise.error).message]>>

C1_Witness ==
    /\ Finished
    /\ run.outcome = "rejected"
    /\ run.error = Some(Thrown("formatResponse"))
    /\ Has(run.log, "execute:end")

\* C2: requestDidEnd fires exactly once iff requestDidStart was notified, as
\* the last event of the request, on every exit path.
C2_RequestDidEndOnEveryPath ==
    LET log == run.log
    IN  /\ Count(log, "requestDidStart") <= 1
        /\ Count(log, "requestDidEnd") <= 1
        /\ Has(log, "requestDidEnd") =>
              /\ Finished
              /\ Has(log, "requestDidStart")
              /\ log[Len(log)] = "requestDidEnd"
        /\ Has(log, "requestDidStart") =>
              \A e \in ValidationEvents \cup ExecutionEvents
                       \cup {"parsingDidStart", "parsingDidEnd", "willSendResponse"} :
                 Has(log, e) => Pos(log, "requestDidStart") < Pos(log, e)
        /\ Finished => Count(log, "requestDidEnd") = Count(log, "requestDidStart")

C2_Witness ==
    /\ Finished
    /\ run.error = Some(Thrown("willExecuteOperation"))
    /\ run.log[Len(run.log)] = "requestDidEnd"

\* one stage's hooks bracket its work
Bracketed(log, didStart, begin, end, didEnd) ==
    /\ Has(log, begin) => Has(log, didStart) /\ Pos(log, didStart) < Pos(log, begin)
    /\ Count(log, didEnd) <= 1
    /\ Has(log, didEnd) => Has(log, end) /\ Pos(log, end) < Pos(log, didEnd)
    /\ Finished /\ Has(log, begin) => Has(log, didEnd)

\* C3: for parse, validate and execute the start hook fires before the
\* stage's work begins and the end finalizer fires exactly once after the
\* work has finished; executionDidEnd fires only after an asynchronous
\* execution has completed or failed.
C3_HooksBracketStages ==
    /\ Bracketed(run.log, "parsingDidStart", "parse:begin", "parse:end", "parsingDidEnd")
    /\ Bracketed(run.log, "validationDidStart", "validate:begin", "validate:end",
                 "validationDidEnd")
    /\ Bracketed(run.log, "executionDidStart", "execute:begin", "execute:end",
                 "executionDidEnd")

\* C4: when the parser rejects the query text, the Response holds exactly one
\* error, classified SyntaxError, and no data, and neither validation nor
\* execution is entered.
C4_SyntaxErrorShortCircuits ==
    ParseRejects =>
      /\ Finished
      /\ \A e \in ValidationEvents \cup ExecutionEvents : ~Has(run.log, e)
      /\ run.outcome = "returned" =>
            /\ ReturnedResponse.data = None
            /\ IsSome(ReturnedResponse.errors)
            /\ Len(Get(ReturnedResponse.errors)) = 1
            /\ Get(ReturnedResponse.errors)[1].class = "SyntaxError"
      /\ run.outcome = "rejected" => run.error = Some(Thrown("willSendResponse"))

C4_Witness ==
    /\ ParseRejects
    /\ run.outcome = "returned"
    /\ Has(run.log, "parsingDidEnd")

\* C5: when validation yields n >= 1 violations, the Response holds exactly n
\* errors, one per violation in the validator's order, all classified
\* ValidationError, and execution never runs.
C5_ValidationErrorsAllReported ==
    Len(Violations) > 0 =>
      /\ Finished
      /\ Has(run.log, "validate:end")
      /\ \A e \in ExecutionEvents : ~Has(run.log, e)
      /\ run.promise = NoPromise
      /\ run.outcome = "returned" =>
            /\ ReturnedResponse.data = None
            /\ IsSome(ReturnedResponse.errors)
            /\ Get(ReturnedResponse.errors) =
                  [i \in 1..Len(Violations) |->
                      [class |-> "ValidationError", message |-> Violations[i].message]]
      /\ run.outcome = "rejected" => run.error = Some(Thrown("willSendResponse"))

C5_Witness ==
    /\ Len(Violations) = 2
    /\ run.outcome = "returned"
    /\ Len(Get(ReturnedResponse.errors)) = 2

PersistedQueryOf(st) == Get(Get(st.request).persistedQuery)
HasPersistedQuery(st) == IsSome(st.request) /\ IsSome(Get(st.request).persistedQuery)
RequestQuery(st) == Get(st.request).query
NothingRan(st) == st.started = None /\ st.parsed = None /\ st.promise = NoPromise

\* C6: with extensions.persistedQuery present and no cache configured,
\* processRequest fails with PersistedQueryNotSupported whatever the version,
\* the hash and the query, before any other check and without touching a cache.
C6_NoCacheNotSupported ==
    HasPersistedQuery(run) /\ options.persistedQueries \in {"absent", "noCache"} =>
      /\ Finished
      /\ run.outcome = "rejected"
      /\ run.error = Some(PersistedQueryNotSupportedError)
      /\ run.log = << >>
      /\ run.getKey = None /\ run.setCall = "none"
      /\ NothingRan(run)

C6_Witness ==
    /\ HasPersistedQuery(run)
    /\ options.persistedQueries = "noCache"
    /\ PersistedQueryOf(run).version = 2
    /\ RequestQuery(run) = Some("{a}")
    /\ PersistedQueryOf(run).sha256Hash = "deadbeef"
    /\ run.error = Some(PersistedQueryNotSupportedError)

HashMismatch(st) ==
    /\ HasPersistedQuery(st)
    /\ options.persistedQueries = "cache"
    /\ PersistedQueryOf(st).version = 1
    /\ IsSome(RequestQuery(st))
    /\ PersistedQueryOf(st).sha256Hash # sha256hex(Get(RequestQuery(st)))

\* C7: with a cache and version 1, a request whose sha256Hash differs from
\* sha256(query) fails with "provided sha does not match query"; cache.get and
\* cache.set are neither called nor scheduled and persistedQueryRegister is
\* never set.
C7_MismatchNeverReachesCache ==
    HashMismatch(run) =>
      /\ Finished
      /\ run.outcome = "rejected"
      /\ run.error = Some(InvalidGraphQLRequestError("provided sha does not match query"))
      /\ run.log = << >>
      /\ run.getKey = None /\ run.setCall = "none"
      /\ ~run.persistedQueryRegister
      /\ NothingRan(run)
      /\ writes = {} /\ warnings = {} /\ \A k \in Keys : store[k] = None

C7_Witness ==
    /\ HashMismatch(run)
    /\ RequestQuery(run) = Some("{a}")
    /\ run.error = Some(InvalidGraphQLRequestError("provided sha does not match query"))

HashOnly(st) ==
    /\ HasPersistedQuery(st)
    /\ options.persistedQueries = "cache"
    /\ PersistedQueryOf(st).version = 1
    /\ RequestQuery(st) = None

\* the cache answered the lookup with a non-empty text
Hit(st) == IsSome(st.got) /\ IsSome(Get(st.got)) /\ Get(Get(st.got)) # ""

\* C8: with a cache and version 1, a request without query looks up exactly
\* "apq:" + sha256Hash; on a hit the cached text is what is parsed, validated
\* and executed and requestDidStart is told persistedQueryHit = true,
\* persistedQueryRegister = false; on a miss processRequest fails with
\* PersistedQueryNotFound, no stage or hook runs and no cache write is made.
C8_LookupByHash ==
    HashOnly(run) =>
      /\ run.getKey = Some("apq:" \o PersistedQueryOf(run).sha256Hash)
      /\ Count(run.log, "cache.get") = 1
      /\ ~Has(run.log, "cache.set") /\ run.setCall = "none"
      /\ ~IsSome(run.got) => run.log = <<"cache.get">> /\ NothingRan(run)
      /\ Hit(run) =>
            /\ store[Get(run.getKey)] = Get(run.got)
            /\ run.persistedQueryHit
            /\ run.query = Get(run.got)
            /\ run.parsed = Get(run.got)
            /\ IsSome(run.document) =>
                  run.document = Some(EngineParse(Get(Get(run.got))).document)
            /\ run.started = Some([queryString |-> None,
                                   persistedQueryHit |-> TRUE,
                                   persistedQueryRegister |-> FALSE])
      /\ IsSome(run.got) /\ ~Hit(run) =>
            /\ Finished
            /\ run.outcome = "rejected"
            /\ run.error = Some(PersistedQueryNotFoundError)
            /\ run.log = <<"cache.get">>
            /\ NothingRan(run)

C8_Witness ==
    /\ HashOnly(run)
    /\ Hit(run)
    /\ Finished
    /\ run.outcome = "returned"
    /\ \E h \in history : IsSome(h.got) /\ ~Hit(h)

Calls == history \cup {run}

SameResult(a, b) ==
    /\ a.pc = b.pc
    /\ a.outcome = b.outcome
    /\ a.response = b.response
    /\ a.error = b.error
    /\ a.log = b.log
    /\ a.started = b.started

\* C9: on the register path the cache write is started and never awaited:
\* whether cache.set throws, stays pending, is rejected or completes, the
\* request goes through the same stages and returns the same Response, with
\* persistedQueryRegister = true told to requestDidStart.
C9_WriteNeverAffectsRequest ==
    /\ \A a \in Calls :
          a.persistedQueryRegister =>
            /\ a.setCall \in {"threw", "pending"}
            /\ a.log[1] = "cache.set" /\ Count(a.log, "cache.set") = 1
            /\ a.pc \in {"awaitExecute", "done"}
            /\ IsSome(a.started) =>
                  /\ Get(a.started).persistedQueryRegister
                  /\ ~Get(a.started).persistedQueryHit
            /\ a.error # Some(Thrown("cache.set"))
    /\ \A a, b \in history :
          a.persistedQueryRegister /\ b.persistedQueryRegister
          /\ a.request = b.request => SameResult(a, b)

C9_Witness ==
    \E a, b, c \in history :
       /\ a.persistedQueryRegister
       /\ a.outcome = "returned"
       /\ a.request = b.request /\ a.request = c.request
       /\ a.writeAtEnd = "threw"
       /\ b.writeAtEnd = "rejected"
       /\ c.writeAtEnd = "pending"

Direct(text) == [query |-> Some(text), persistedQuery |-> None, operationName |-> None]

HashOnlyCalls == {h \in history : HashOnly(h) /\ IsSome(h.got) /\ IsSome(Get(h.got))}

SameAsDirect(h) ==
    \A d \in history :
       d.request = Some(Direct(Get(Get(h.got)))) =>
          /\ d.outcome = h.outcome
          /\ d.response = h.response
          /\ d.error = h.error

\* C10 (as stated): once the write of a register request for Q has completed,
\* a request carrying only the hash of Q no longer fails with
\* PersistedQueryNotFound and yields what a request sending Q directly yields.
C10_RoundTripAnyText ==
    \A h \in HashOnlyCalls :
       /\ h.error # Some(PersistedQueryNotFoundError)
       /\ SameAsDirect(h)

\* C10 (amended): the cache holds under "apq:" + sha256(Q) the text Q of a
\* register request whose write completed, and stays so; a later request
\* carrying only that hash yields, for a non-empty Q, what a request sending
\* Q directly yields, and for the empty Q it fails with
\* PersistedQueryNotFound.
C10_RoundTripNonEmptyText ==
    /\ \A k \in Keys :
          IsSome(store[k]) => k = "apq:" \o sha256hex(Get(store[k]))
    /\ \A h \in HashOnlyCalls :
          /\ sha256hex(Get(Get(h.got))) = PersistedQueryOf(h).sha256Hash
          /\ Get(Get(h.got)) # "" =>
                /\ h.error # Some(PersistedQueryNotFoundError)
                /\ SameAsDirect(h)
          /\ Get(Get(h.got)) = "" => h.error = Some(PersistedQueryNotFoundError)

C10_Witness ==
    \E h \in HashOnlyCalls, d \in history :
       /\ d.request = Some(Direct(Get(Get(h.got))))
       /\ h.outcome = "returned"
       /\ IsSome(Get(h.response).data)
       /\ \E r \in history : r.persistedQueryRegister /\ r.query = Get(h.got)
                             /\ r.writeAtEnd = "stored"

(***************************************************************************)
(* C14..C18: the stages of one request (specification Spec).                *)
(***************************************************************************)
MustProvideQuery == InvalidGraphQLRequestError("Must provide query string.")

\* the persisted-query resolution of the call in progress went through and
\* left no query text: a request without persistedQuery whose query is absent
\* or empty, or an empty query registered under its own hash
QueryStillMissing ==
    /\ run.pc # "idle"
    /\ \/ ~HasPersistedQuery(run) /\ queryMissing(RequestQuery(run))
       \/ run.persistedQueryRegister /\ RequestQuery(run) = Some("")

\* C14: whenever the query text is absent or empty after persisted-query
\* resolution, processRequest is rejected with InvalidGraphQLRequestError
\* "Must provide query string." before requestDidStart: no hook fires and
\* parse, validate and execute are never invoked; and that error has no
\* other cause.
C14_MissingQueryRejectedAtStart ==
    /\ QueryStillMissing =>
          /\ Finished
          /\ run.outcome = "rejected"
          /\ run.error = Some(MustProvideQuery)
          /\ run.response = None
          /\ NothingRan(run)
          /\ \A i \in 1..Len(run.log) : run.log[i] = "cache.set"
    /\ run.error = Some(MustProvideQuery) => QueryStillMissing

\* an empty query with no persistedQuery has been refused
C14_Witness ==
    /\ Finished
    /\ ~HasPersistedQuery(run)
    /\ RequestQuery(run) = Some("")
    /\ run.error = Some(MustProvideQuery)
    /\ run.log = << >>

\* the Executing stage of the call in progress was entered
ExecutingEntered == IsSome(run.document)
OperationName == Get(run.request).operationName
EngineOutcome == EngineExecute(Get(run.document), OperationName)

RootValueThrows == options.rootValue = "functionThrows"
ExecutionDidStartThrows == ~RootValueThrows /\ extensionStack.executionDidStart = "throws"
ExecutorThrows ==
    /\ ~RootValueThrows
    /\ extensionStack.executionDidStart # "throws"
    /\ EngineOutcome.mode \in {"throws", "rejects"}

\* what this.execute(...) fails with
ExecutionError ==
    IF RootValueThrows THEN Thrown("rootValue")
    ELSE IF ExecutionDidStartThrows THEN Thrown("executionDidStart")
    ELSE EngineOutcome.error

\* C15: when the executor, a rootValue function or executionDidStart throws
\* (or the executor's promise is rejected), the formatting steps (format,
\* formatResponse) are skipped, willSendResponse is applied once and, unless
\* it throws itself, the Response returned holds exactly that one error,
\* classified ApolloError, and no data.  Only the first stage to fail
\* determines the response: nothing of a later stage runs.
C15_ExecutionErrorAlone ==
    /\ Finished /\ ExecutingEntered
         /\ (RootValueThrows \/ ExecutionDidStartThrows \/ ExecutorThrows) =>
          /\ ~Has(run.log, "format")
          /\ ~Has(run.log, "formatResponse")
          /\ Count(run.log, "willSendResponse") = 1
          /\ extensionStack.willSendResponse # "throws" =>
                /\ run.outcome = "returned"
                /\ ReturnedResponse.data = None
                /\ ReturnedResponse.errors =
                      Some(<<[class |-> "ApolloError", message |-> ExecutionError.message]>>)
                /\ ReturnedResponse.extensions = None
                /\ \A i \in 1..Len(ReturnedResponse.shapedBy) :
                      ReturnedResponse.shapedBy[i] # "formatResponse"
    /\ ExecutingEntered /\ RootValueThrows =>
          \A e \in {"executionDidStart", "execute:begin", "execute:end", "executionDidEnd"} :
             ~Has(run.log, e)
    /\ ExecutingEntered /\ ExecutionDidStartThrows =>
          \A e \in {"execute:begin", "execute:end", "executionDidEnd"} : ~Has(run.log, e)
    /\ ParseRejects => \A e \in ValidationEvents \cup ExecutionEvents : ~Has(run.log, e)
    /\ Len(Violations) > 0 => \A e \in ExecutionEvents : ~Has(run.log, e)

\* a rejected promise of the executor has become the one error of the Response
C15_Witness ==
    /\ Finished
    /\ ExecutingEntered
    /\ ExecutorThrows
    /\ EngineOutcome.mode = "rejects"
    /\ run.outcome = "returned"
    /\ options.formatResponse = "returns"
    /\ extensionStack.format = "nonEmpty"
    /\ ReturnedResponse.errors =
          Some(<<[class |-> "ApolloError", message |-> "context creation failed"]>>)

\* the hooks of the extension stack and the willExecuteOperation callback
IsHook(e) ==
    e \in {"requestDidStart", "parsingDidStart", "parsingDidEnd", "validationDidStart",
           "validationDidEnd", "willExecuteOperation", "executionDidStart",
           "executionDidEnd", "willSendResponse", "requestDidEnd"}
Hooks == SelectSeq(run.log, IsHook)

\* the stage hooks of a complete request, with or without willExecuteOperation
StageOrder(withOperation) ==
    <<"requestDidStart", "parsingDidStart", "parsingDidEnd", "validationDidStart",
      "validationDidEnd">>
    \o (IF withOperation THEN <<"willExecuteOperation">> ELSE << >>)
    \o <<"executionDidStart", "executionDidEnd">>

IsPrefix(p, s) == Len(p) <= Len(s) /\ SubSeq(s, 1, Len(p)) = p
Prefixes(s) == {SubSeq(s, 1, n) : n \in 1..Len(s)}

OperationResolved ==
    IsSome(run.parsed) /\ IsSome(getOperationAST(Get(run.parsed), OperationName))

\* C16 (as stated): the hooks of a request that was started come in the
\* order requestDidStart, parsingDidStart, parsingDidEnd, validationDidStart,
\* validationDidEnd, willExecuteOperation (only with a resolved operation),
\* executionDidStart, executionDidEnd, willSendResponse, requestDidEnd; a
\* request that ends early has fired a prefix of the stage hooks followed by
\* willSendResponse and requestDidEnd.
C16_StrictOrder ==
    IsSome(run.started) =>
      /\ Has(run.log, "willExecuteOperation") => OperationResolved
      /\ ~Finished =>
            IsPrefix(Hooks, StageOrder(Has(run.log, "willExecuteOperation")))
      /\ Finished =>
            \E p \in Prefixes(StageOrder(Has(run.log, "willExecuteOperation"))) :
               Hooks = p \o <<"willSendResponse", "requestDidEnd">>

\* the hooks that close a finished request: willSendResponse and
\* requestDidEnd, or requestDidEnd alone when willExecuteOperation or
\* formatResponse threw
ClosingHooks ==
    IF run.error \in {Some(Thrown("willExecuteOperation")), Some(Thrown("formatResponse"))}
    THEN <<"requestDidEnd">>
    ELSE <<"willSendResponse", "requestDidEnd">>

\* a prefix of the stage hooks that stops where a stage has ended, or at
\* executionDidStart when that hook threw
StopsAtStageEnd(p) ==
    \/ p[Len(p)] \in {"parsingDidEnd", "validationDidEnd", "willExecuteOperation",
                      "executionDidEnd"}
    \/ p[Len(p)] = "executionDidStart" /\ ExecutionDidStartThrows

\* C16 (amended): same order; a request that ends early with a Response (or
\* in the exception of willSendResponse) has fired a prefix of the stage
\* hooks that stops at the end of a stage, followed by willSendResponse and
\* requestDidEnd; a request ended by the exception of willExecuteOperation
\* or formatResponse closes with requestDidEnd alone; a request rejected
\* before requestDidStart fires no hook.
C16_OrderWithEscapes ==
    /\ ~IsSome(run.started) => Hooks = << >>
    /\ IsSome(run.started) =>
          /\ Has(run.log, "willExecuteOperation") => OperationResolved
          /\ ~Finished =>
                IsPrefix(Hooks, StageOrder(Has(run.log, "willExecuteOperation")))
          /\ Finished =>
                \E p \in Prefixes(StageOrder(Has(run.log, "willExecuteOperation"))) :
                   /\ StopsAtStageEnd(p)
                   /\ Hooks = p \o ClosingHooks
          /\ Finished /\ run.error = Some(Thrown("willExecuteOperation")) =>
                Hooks[Len(Hooks) - 1] = "willExecuteOperation"
          /\ Finished /\ run.error = Some(Thrown("formatResponse")) =>
                Hooks[Len(Hooks) - 1] = "executionDidEnd"

\* willExecuteOperation threw: the request closed without willSendResponse
C16_Witness ==
    /\ Finished
    /\ run.error = Some(Thrown("willExecuteOperation"))
    /\ Hooks = <<"requestDidStart", "parsingDidStart", "parsingDidEnd",
                 "validationDidStart", "validationDidEnd", "willExecuteOperation",
                 "requestDidEnd">>

\* execution has produced a result for the call in progress
ExecutionResultOf == Get(run.promise.value)

\* the response as it stands after the formatted extensions were merged
WithExtensions ==
    [data       |-> ExecutionResultOf.data,
     errors     |-> ExecutionResultOf.errors,
     extensions |-> IF extensionStack.format = "nonEmpty" THEN Some({"tracing"}) ELSE None,
     shapedBy   |-> << >>]

\* C17: after normal execution the formatted extensions are set on the
\* response only when non-empty, then formatResponse (if configured) is
\* called with that response and what it returns replaces the response, then
\* willSendResponse; on every path that returns a Response willSendResponse
\* is invoked exactly once, after every other response-shaping step, and the
\* Response returned is the one willSendResponse returned.
C17_FormattingOrder ==
    /\ Count(run.log, "willSendResponse") <= 1
    /\ Count(run.log, "format") <= 1
    /\ Count(run.log, "formatResponse") <= 1
    /\ \A i, j \in 1..Len(run.log) :
          /\ run.log[i] = "willSendResponse" /\ run.log[j] \in {"format", "formatResponse"}
                => j < i
          /\ run.log[i] = "formatResponse" /\ run.log[j] = "format" => j < i
    /\ Has(run.log, "formatResponse") =>
          /\ options.formatResponse # "undefined"
          /\ run.formatResponseArgs = Some(WithExtensions)
    /\ Finished /\ run.outcome = "returned" =>
          /\ Count(run.log, "willSendResponse") = 1
          /\ run.promise.state = "fulfilled" =>
                /\ Has(run.log, "format")
                /\ Has(run.log, "formatResponse") <=> options.formatResponse = "returns"
                /\ ReturnedResponse =
                      StackWillSendResponse(
                         IF options.formatResponse = "returns"
                         THEN [WithExtensions EXCEPT !.shapedBy = <<"formatResponse">>]
                         ELSE WithExtensions)

\* a Response that went through format, formatResponse and willSendResponse
C17_Witness ==
    /\ Finished
    /\ run.outcome = "returned"
    /\ run.promise.state = "fulfilled"
    /\ extensionStack.format = "empty"
    /\ ReturnedResponse.extensions = None
    /\ ReturnedResponse.shapedBy = <<"formatResponse", "willSendResponse">>
    /\ Pos(run.log, "format") < Pos(run.log, "formatResponse")
    /\ Pos(run.log, "formatResponse") < Pos(run.log, "willSendResponse")

\* the document of the call in progress passed parsing and validation
Validated == IsSome(run.parsed) /\ ~ParseRejects /\ Len(Violations) = 0

\* C18: when the document holds no operation of the given name, or several
\* operations and no name is given, the processor does not fail on its own:
\* willExecuteOperation is not called, executionDidStart fires and the
\* engine's executor is invoked (unless a rootValue function or
\* executionDidStart throws first), and the error of the Response is the
\* engine's.  Whenever resolution succeeds and the callback is defined,
\* willExecuteOperation is called exactly once, with the resolved operation.
C18_ResolutionDeferred ==
    /\ Count(run.log, "willExecuteOperation") <= 1
    /\ Validated /\ ~OperationResolved =>
          /\ ~Has(run.log, "willExecuteOperation")
          /\ run.operation = None
          /\ ExecutingEntered
          /\ ~RootValueThrows => Has(run.log, "executionDidStart")
          /\ ~RootValueThrows /\ ~ExecutionDidStartThrows =>
                /\ Count(run.log, "execute:begin") = 1
                /\ Pos(run.log, "executionDidStart") < Pos(run.log, "execute:begin")
          /\ Finished /\ run.outcome = "rejected" =>
                run.error \in {Some(Thrown("formatResponse")), Some(Thrown("willSendResponse"))}
          /\ Finished /\ run.outcome = "returned"
               /\ ~RootValueThrows /\ ~ExecutionDidStartThrows =>
                /\ ReturnedResponse.data = EngineOutcome.value.data
                /\ ReturnedResponse.errors = EngineOutcome.value.errors
                /\ IsSome(ReturnedResponse.errors)
    /\ Validated /\ OperationResolved =>
          /\ willExecuteOperation # "undefined" =>
                /\ Count(run.log, "willExecuteOperation") = 1
                /\ run.operation = getOperationAST(Get(run.parsed), OperationName)
                /\ Has(run.log, "executionDidStart") =>
                      Pos(run.log, "willExecuteOperation") < Pos(run.log, "executionDidStart")
          /\ willExecuteOperation = "undefined" => ~Has(run.log, "willExecuteOperation")
    /\ ~Validated => ~Has(run.log, "willExecuteOperation")

\* a request naming an operation the document does not define was executed
\* and answered with the engine's error, willExecuteOperation being defined
C18_Witness ==
    /\ Finished
    /\ Validated
    /\ OperationName = Some("Z")
    /\ RequestQuery(run) = Some(TwoOperations)
    /\ willExecuteOperation = "returns"
    /\ ~Has(run.log, "willExecuteOperation")
    /\ Has(run.log, "execute:begin")
    /\ run.outcome = "returned"
    /\ ReturnedResponse.errors = Some(<<GraphQLError("Unknown operation named")>>)

(***************************************************************************)
(* C19: the cache over a sequence of requests (specification SpecAPQ).      *)
(***************************************************************************)
ProtocolErrors ==
    {PersistedQueryNotSupportedError, PersistedQueryNotFoundError,
     InvalidGraphQLRequestError("Unsupported persisted query version"),
     InvalidGraphQLRequestError("provided sha does not match query")}

RejectedWith(st, errors) ==
    st.pc = "done" /\ st.outcome = "rejected" /\ Get(st.error) \in errors

\* the entries written or being written
Entries ==
    {[key |-> w.key, value |-> w.value] : w \in writes}
    \cup {[key |-> k, value |-> Get(store[k])] : k \in {x \in DOMAIN store : IsSome(store[x])}}

\* a call that has invoked cache.set did so once, on the register path, with
\* version 1 and the hash of its own query
WroteOnRegisterOnly(c) ==
    /\ Count(c.log, "cache.set") <= 1
    /\ Has(c.log, "cache.set") <=> c.setCall # "none"
    /\ Has(c.log, "cache.set") =>
          /\ c.persistedQueryRegister
          /\ PersistedQueryOf(c).version = 1
          /\ IsSome(RequestQuery(c))
          /\ PersistedQueryOf(c).sha256Hash = sha256hex(Get(RequestQuery(c)))

\* C19 (as stated): at most one cache write per request; every write stores
\* a non-empty text v under "apq:" + sha256(v); a request rejected in the
\* Start stage (a persisted-query protocol error or "Must provide query
\* string.") causes no cache write.
C19_OnlyNonEmptyTextsOfAcceptedRequests ==
    /\ \A c \in Calls : Count(c.log, "cache.set") <= 1
    /\ \A e \in Entries : e.value # "" /\ e.key = "apq:" \o sha256hex(e.value)
    /\ \A c \in Calls :
          RejectedWith(c, ProtocolErrors \cup {MustProvideQuery}) =>
             c.setCall = "none" /\ ~Has(c.log, "cache.set")

\* C19 (amended): at most one cache write per request; every write stores
\* the query text v of a register request, the empty text included, under
\* "apq:" + sha256(v); a request rejected with a persisted-query protocol
\* error causes no write; a request rejected with "Must provide query
\* string." has written exactly when it registered the empty text.
C19_WritesKeyedByTheirText ==
    /\ \A c \in Calls : WroteOnRegisterOnly(c)
    /\ \A e \in Entries : e.key = "apq:" \o sha256hex(e.value)
    /\ \A e \in Entries :
          \E q \in APQTexts : e.value = q
    /\ \A c \in Calls :
          /\ RejectedWith(c, ProtocolErrors) =>
                c.setCall = "none" /\ ~Has(c.log, "cache.set")
          /\ RejectedWith(c, {MustProvideQuery}) =>
                (Has(c.log, "cache.set") <=>
                    c.persistedQueryRegister /\ RequestQuery(c) = Some(""))

\* the empty text has been stored by a request that was rejected, and a
\* non-empty text by one that was answered
C19_Witness ==
    /\ store["apq:" \o sha256hex("")] = Some("")
    /\ store["apq:" \o sha256hex("{a}")] = Some("{a}")
    /\ \E c \in history :
          RejectedWith(c, {MustProvideQuery}) /\ Has(c.log, "cache.set")
    /\ \E c \in history :
          c.outcome = "returned" /\ Has(c.log, "cache.set")

(***************************************************************************)
(* C11..C13: construction (specification SpecContext).                      *)
(***************************************************************************)
Attempted(p) == processors[p].status # "none"
Constructed(p) == processors[p].status = "constructed"

\* C11: with a data-source factory configured, constructing a processor
\* invokes the factory once and calls initialize once on every data source
\* that defines it, with the processor's context (the clone that is later
\* the executor's contextValue and that receives the dataSources mapping)
\* and the configured cache; no data source is initialized with an
\* undefined context.
C11_InitializedWithContext ==
    \A p \in Processors :
       Constructed(p) /\ options.dataSources = "factory" =>
          /\ processors[p].factoryCalls = 1
          /\ heap[Get(processors[p].context)].allocated
          /\ \A name \in DOMAIN processors[p].dataSources :
                LET dataSource == processors[p].dataSources[name]
                IN  /\ Len(dataSource.calls) = IF dataSource.hasInitialize THEN 1 ELSE 0
                    /\ \A i \in 1..Len(dataSource.calls) :
                          /\ dataSource.calls[i][1].context = processors[p].context
                          /\ dataSource.calls[i][1].context # None
                          /\ dataSource.calls[i][1].cache = options.cache

\* the caller's own context defines dataSources (options.context is never
\* written to, see C13)
CallerDefinesDataSources == In(heap[OptionsContext], "dataSources")

\* C12: (a data-source factory being configured) if the caller's context
\* already defines dataSources, construction throws, and it throws before
\* initialization: no data source's initialize has been called and nothing
\* has been attached to a context.
C12_FailsBeforeInitialization ==
    \A p \in Processors :
       Attempted(p) /\ options.dataSources = "factory" /\ CallerDefinesDataSources =>
          /\ processors[p].status = "threw"
          /\ processors[p].context = None
          /\ processors[p].contextValue = None
          /\ \A name \in DOMAIN processors[p].dataSources :
                processors[p].dataSources[name].calls = << >>
          /\ heap[p].props["_extensionStack"] = Absent
          /\ heap[p].props["dataSources"] = heap[OptionsContext].props["dataSources"]

\* what a processor or the caller sees through a reference to a context
Seen(address) == heap[address].props

\* a step in which a property of processor p's context is assigned or deleted
MutatesContextOf(p) ==
    \/ \E key \in PropertyNames : AssignProperty(p, key, "reassigned")
    \/ \E key \in PropertyNames : DeleteProperty(p, key)

\* C13: processors constructed from the same options have contexts of their
\* own: the properties seen through options.context never change, whatever
\* is constructed, attached, assigned or deleted, and the properties seen
\* through a constructed processor's context change only in a step that
\* assigns or deletes a property through that very processor.
C13_ContextIsolation ==
    [][/\ Seen(OptionsContext)' = Seen(OptionsContext)
       /\ \A p \in Processors :
             Constructed(p) /\ Seen(Get(processors[p].context))'
                                  # Seen(Get(processors[p].context))
                => /\ MutatesContextOf(p)
                   /\ \A q \in Processors \ {p} :
                         Constructed(q) =>
                            Seen(Get(processors[q].context))'
                               = Seen(Get(processors[q].context))]_vars

\* both processors are constructed and hand out their contexts; one context
\* has lost dataSources and had _extensionStack reassigned, the other and
\* the caller's are as they were made
C13_Witness ==
    /\ options.dataSources = "factory"
    /\ \A p \in Processors : Constructed(p) /\ IsSome(processors[p].contextValue)
    /\ Seen(1) = [k \in PropertyNames |->
                     CASE k = "user" -> "alice"
                       [] k = "dataSources" -> Absent
                       [] OTHER -> "reassigned"]
    /\ Seen(2) = [k \in PropertyNames |->
                     CASE k = "user" -> "alice"
                       [] k = "dataSources" -> "mapping"
                       [] OTHER -> "stack"]
    /\ Seen(OptionsContext) = CallerContext(FALSE).props

(***************************************************************************)
(* C20: RESTDataSource.fetch (specification SpecFetch).                     *)
(***************************************************************************)
\* the request of the call in progress failed: httpCache.fetch was rejected,
\* or didReceiveResponse was
RequestFailed ==
    fetching.inner \in {"httpCache.fetch rejected", "didReceiveResponse rejected"}

\* C20: every get/post/put/patch/delete awaits willSendRequest (when
\* defined) before it resolves the URL, then calls httpCache.fetch exactly
\* once, with the key cacheKeyFor returns (the request URL by default); and
\* every failure of that request, a rejected httpCache.fetch or a rejected
\* didReceiveResponse alike, is passed to didEncounterError before the
\* call's promise settles.
C20_FailuresReachDidEncounterError ==
    /\ Has(fetching.log, "resolveURL") /\ restDataSource.willSendRequest # "undefined" =>
          /\ Has(fetching.log, "willSendRequest:settled")
          /\ Pos(fetching.log, "willSendRequest:settled") < Pos(fetching.log, "resolveURL")
    /\ Count(fetching.log, "httpCache.fetch") <= 1
    /\ Has(fetching.log, "httpCache.fetch") =>
          /\ Pos(fetching.log, "resolveURL") < Pos(fetching.log, "httpCache.fetch")
          /\ fetching.cacheKey = Some(cacheKeyFor(restDataSource, Get(fetching.url)))
          /\ restDataSource.cacheKeyFor = "default" => fetching.cacheKey = fetching.url
    /\ fetching.pc = "done" /\ RequestFailed =>
          /\ Has(fetching.log, "didEncounterError")
          /\ Pos(fetching.log, "didEncounterError") < Pos(fetching.log, "settled")

====
